---- MODULE Spec2Model ----
(***************************************************************************)
(* bevy_iced: the per-frame bridge between Bevy's input/render loop and    *)
(* Iced.  The model covers src/systems.rs (process_input, the translation  *)
(* of host events into the IcedEventQueue) and src/lib.rs (IcedCache,      *)
(* IcedContext::display, hit_test, process_touch_input).                   *)
(***************************************************************************)
EXTENDS Integers, Sequences, FiniteSets, TLC

\* ------------------------------------------------------------------------
\* Bounds of the model
\* ------------------------------------------------------------------------
MaxHostEvents == 2     \* host events observed in one tick (frame machine)
MaxPassEvents == 3     \* host events observed in one tick (single program)
MaxTickEvents == 2     \* host events observed in one tick (translator alone)
MaxSnapshot == 1       \* distinct non-default widget-tree snapshots
MaxPointerEvents == 2  \* host events observed in one tick (pointer sources)

VARIABLES
    events,        \* IcedEventQueue: Vec<iced_native::Event>
    input_map,     \* Input<KeyCode>: the set of keys currently pressed
    touch,         \* cfg(feature = "touch")
    cache_map,     \* IcedCache.cache: HashMap<TypeId, Option<UiCache>>
    poisoned,      \* the IcedResource mutex was poisoned by a panic
    result,        \* IcedDisplayResult
    cursor_icon,   \* primary window's cursor.icon
    did_draw,      \* DidDraw(AtomicBool)
    translated,    \* process_input has run in the current frame
    observed,      \* history: host events read by the latest process_input
    input_before,  \* history: input_map before the latest tick's key events
    drained,       \* history: a display call returned since the latest translation
    checkin,       \* history: per identity, the snapshot of its latest checkin
    last           \* history: the latest display call of the current frame

vars == <<events, input_map, touch, cache_map, poisoned, result, cursor_icon,
          did_draw, translated, observed, input_before, drained, checkin, last>>

\* ------------------------------------------------------------------------
\* Small helpers
\* ------------------------------------------------------------------------
Some(v) == <<v>>
None == <<>>
is_some(o) == Len(o) = 1
unwrap(o) == o[1]

RECURSIVE SeqsUpTo(_, _)
SeqsUpTo(S, n) ==
    IF n = 0 THEN {<<>>}
    ELSE LET shorter == SeqsUpTo(S, n - 1)
         IN  shorter \cup {Append(s, e) : s \in {t \in shorter : Len(t) = n - 1}, e \in S}

RECURSIVE Concat(_)
Concat(ss) == IF ss = <<>> THEN <<>> ELSE Head(ss) \o Concat(Tail(ss))

\* ------------------------------------------------------------------------
\* Host (Bevy) input events and key state
\* ------------------------------------------------------------------------
ModifierKeys ==
    {"LControl", "RControl", "LShift", "RShift", "LAlt", "RAlt", "LWin", "RWin"}

CursorMovedEv(p) == [type |-> "CursorMoved", position |-> p]
MouseButtonEv(b, st) == [type |-> "MouseButtonInput", button |-> b, state |-> st]
CursorEnteredEv == [type |-> "CursorEntered"]
CursorLeftEv == [type |-> "CursorLeft"]
MouseWheelEv(dx, dy) == [type |-> "MouseWheel", x |-> dx, y |-> dy]
ReceivedCharacterEv(c) == [type |-> "ReceivedCharacter", char |-> c]
KeyboardInputEv(code, st) == [type |-> "KeyboardInput", key_code |-> code, state |-> st]
TouchInputEv(ph, p, id) == [type |-> "TouchInput", phase |-> ph, position |-> p, id |-> id]

\* Host events drawn in the frame machine, which is about the schedule and
\* the caches of several programs.
FrameAlphabet == {CursorMovedEv(<<100, 100>>)}

\* Host events drawn for the single program: the remaining categories.
PassAlphabet ==
    {CursorEnteredEv, MouseWheelEv(0, 3), ReceivedCharacterEv("a")}

\* Host events drawn when the translator is examined alone: pointer, keys
\* (modifier keys of both sides, a plain key, a key without key code), touch.
TickAlphabet ==
    {CursorMovedEv(<<100, 100>>),
     MouseButtonEv("Left", "Pressed"),
     KeyboardInputEv(Some("LControl"), "Pressed"),
     KeyboardInputEv(Some("LControl"), "Released"),
     KeyboardInputEv(Some("RShift"), "Pressed"),
     KeyboardInputEv(Some("A"), "Pressed"),
     KeyboardInputEv(None, "Pressed"),
     TouchInputEv("Started", <<5, 5>>, 1)}

\* Host events drawn when the pointer position is examined: touches at two
\* places, and an event that is no touch.
PointerAlphabet ==
    {TouchInputEv("Started", <<5, 5>>, 1),
     TouchInputEv("Moved", <<60, 40>>, 1),
     CursorMovedEv(<<100, 100>>)}

\* Input<KeyCode> after the tick's keyboard events: a press inserts the key,
\* a release removes it; an event without key code changes nothing.
RECURSIVE ApplyKeys(_, _)
ApplyKeys(pressed, host) ==
    IF host = <<>> THEN pressed
    ELSE LET ev == Head(host)
             next == IF ev.type = "KeyboardInput" /\ is_some(ev.key_code)
                     THEN IF ev.state = "Pressed"
                          THEN pressed \cup {unwrap(ev.key_code)}
                          ELSE pressed \ {unwrap(ev.key_code)}
                     ELSE pressed
         IN  ApplyKeys(next, Tail(host))

\* Input::any_pressed
any_pressed(pressed, keys) == pressed \cap keys # {}

\* ------------------------------------------------------------------------
\* conversions.rs (host value -> toolkit value)
\* ------------------------------------------------------------------------
\* conversions::mouse_button: the fixed host-button -> toolkit-button table
mouse_button(b) ==
    CASE b = "Left" -> "mouse::Button::Left"
      [] b = "Right" -> "mouse::Button::Right"
      [] b = "Middle" -> "mouse::Button::Middle"
      [] OTHER -> "mouse::Button::Other"

\* conversions::key_code: the normalized toolkit key code
key_code(code) ==
    CASE code = "Return" -> "keyboard::KeyCode::Enter"
      [] code = "Back" -> "keyboard::KeyCode::Backspace"
      [] OTHER -> "keyboard::KeyCode::" \o code

\* conversions::touch_event: 1:1 phase mapping, position carried through
touch_event(ev) ==
    [cat |-> "Touch",
     kind |-> CASE ev.phase = "Started" -> "FingerPressed"
                [] ev.phase = "Moved" -> "FingerMoved"
                [] ev.phase = "Ended" -> "FingerLifted"
                [] OTHER -> "FingerLost",
     id |-> ev.id,
     position |-> ev.position]

\* ------------------------------------------------------------------------
\* systems.rs: compute_modifiers and process_input
\* ------------------------------------------------------------------------
compute_modifiers_LeftOnly(pressed) ==
    (IF any_pressed(pressed, {"LControl"}) THEN {"CTRL"} ELSE {})
    \cup (IF any_pressed(pressed, {"LShift"}) THEN {"SHIFT"} ELSE {})
    \cup (IF any_pressed(pressed, {"LAlt"}) THEN {"ALT"} ELSE {})
    \cup (IF any_pressed(pressed, {"LWin"}) THEN {"LOGO"} ELSE {})

compute_modifiers(pressed) ==
    (IF any_pressed(pressed, {"LControl", "RControl"}) THEN {"CTRL"} ELSE {})
    \cup (IF any_pressed(pressed, {"LShift", "RShift"}) THEN {"SHIFT"} ELSE {})
    \cup (IF any_pressed(pressed, {"LAlt", "RAlt"}) THEN {"ALT"} ELSE {})
    \cup (IF any_pressed(pressed, {"LWin", "RWin"}) THEN {"LOGO"} ELSE {})

\* EventReader<T>::iter(): the tick's events of one type, in arrival order
reader(host, type) == SelectSeq(host, LAMBDA ev : ev.type = type)

cursor_moved(ev) ==
    [cat |-> "Mouse", kind |-> "CursorMoved", position |-> ev.position]

mouse_button_input(ev) ==
    [cat |-> "Mouse",
     kind |-> IF ev.state = "Pressed" THEN "ButtonPressed" ELSE "ButtonReleased",
     button |-> mouse_button(ev.button)]

cursor_entered(ev) == [cat |-> "Mouse", kind |-> "CursorEntered"]

cursor_left(ev) == [cat |-> "Mouse", kind |-> "CursorLeft"]

mouse_wheel(ev) ==
    [cat |-> "Mouse", kind |-> "WheelScrolled",
     delta |-> [unit |-> "Pixels", x |-> ev.x, y |-> ev.y]]

received_character(ev) ==
    [cat |-> "Keyboard", kind |-> "CharacterReceived", char |-> ev.char]

\* the body of the keyboard loop for an event that has a key code
keyboard_input(ev, pressed) ==
    LET code == unwrap(ev.key_code)
        modifiers == compute_modifiers(pressed)
    IN  IF code \in ModifierKeys
        THEN [cat |-> "Keyboard", kind |-> "ModifiersChanged", modifiers |-> modifiers]
        ELSE [cat |-> "Keyboard",
              kind |-> IF ev.state = "Pressed" THEN "KeyPressed" ELSE "KeyReleased",
              key_code |-> key_code(code),
              modifiers |-> modifiers]

clear_Skipped(queue) == queue

\* Vec::clear
clear(queue) == <<>>

\* The event queue process_input leaves behind: cleared, then one loop per
\* event reader, in the order of the loops in the code.
translate(queue, host, pressed, touch_enabled) ==
    LET keyed == SelectSeq(reader(host, "KeyboardInput"),
                           LAMBDA ev : is_some(ev.key_code))
    IN  Concat(<<
            clear(queue),
            [i \in DOMAIN reader(host, "CursorMoved") |-> cursor_moved(reader(host, "CursorMoved")[i])],
            [i \in DOMAIN reader(host, "MouseButtonInput") |-> mouse_button_input(reader(host, "MouseButtonInput")[i])],
            [i \in DOMAIN reader(host, "CursorEntered") |-> cursor_entered(reader(host, "CursorEntered")[i])],
            [i \in DOMAIN reader(host, "CursorLeft") |-> cursor_left(reader(host, "CursorLeft")[i])],
            [i \in DOMAIN reader(host, "MouseWheel") |-> mouse_wheel(reader(host, "MouseWheel")[i])],
            [i \in DOMAIN reader(host, "ReceivedCharacter") |-> received_character(reader(host, "ReceivedCharacter")[i])],
            [i \in 1..Len(keyed) |-> keyboard_input(keyed[i], pressed)],
            IF touch_enabled THEN [i \in DOMAIN reader(host, "TouchInput") |-> touch_event(reader(host, "TouchInput")[i])] ELSE <<>>
        >>)

NoCall == [id |-> "none", outcome |-> "none", translated |-> FALSE,
           drained |-> FALSE, persisted |-> None, cache |-> None,
           events |-> <<>>, statuses |-> <<>>,
           scene |-> None, cursor |-> None, sent |-> <<>>]

\* One run of the process_input system on the host events of the tick.  The
\* key state it reads already reflects every keyboard event of the tick.
process_input(host) ==
    /\ ~translated
    /\ input_before' = input_map
    /\ input_map' = ApplyKeys(input_map, host)
    /\ events' = translate(events, host, input_map', touch)
    /\ observed' = host
    /\ translated' = TRUE
    /\ drained' = FALSE
    /\ UNCHANGED <<touch, cache_map, poisoned, result, cursor_icon, did_draw,
                   checkin, last>>

\* The schedule has run every system of the frame; the next tick begins.
EndFrame ==
    /\ translated
    /\ translated' = FALSE
    /\ last' = NoCall
    /\ UNCHANGED <<events, input_map, touch, cache_map, poisoned, result,
                   cursor_icon, did_draw, observed, input_before, drained, checkin>>

\* ------------------------------------------------------------------------
\* lib.rs: IcedCache
\* ------------------------------------------------------------------------
Ids == {"A", "B"}                      \* TypeId::of::<M>() of the message types
Default == 0                           \* UiCache::default()
Snapshots == 0..MaxSnapshot            \* values of ui.into_cache()

contains_key(map, id) == id \in DOMAIN map
insert(map, id, v) == [k \in DOMAIN map \cup {id} |-> IF k = id THEN v ELSE map[k]]

get_Reset(map, id) ==
    IF ~contains_key(map, id) THEN insert(<<>>, id, Some(Default)) ELSE map

get_Vacant(map, id) ==
    IF ~contains_key(map, id) THEN insert(map, id, None) ELSE map

get_Reinit(map, id) == insert(map, id, Some(Default))

\* IcedCache::get: the map after the call; the entry returned is map[id]
get(map, id) ==
    IF ~contains_key(map, id) THEN insert(map, id, Some(Default)) ELSE map

\* ------------------------------------------------------------------------
\* lib.rs: hit_test
\* ------------------------------------------------------------------------
Rect(x, y, w, h) == [x |-> x, y |-> y, width |-> w, height |-> h]

\* Rectangle::contains
contains(bounds, p) ==
    /\ bounds.x <= p[1] /\ p[1] < bounds.x + bounds.width
    /\ bounds.y <= p[2] /\ p[2] < bounds.y + bounds.height

Quad(b) == [kind |-> "Quad", bounds |-> b]
Text(b) == [kind |-> "Text", bounds |-> b]
Image(b) == [kind |-> "Image", bounds |-> b]
Svg(b) == [kind |-> "Svg", bounds |-> b]
Group(ps) == [kind |-> "Group", primitives |-> ps]
Clip(b, c) == [kind |-> "Clip", bounds |-> b, content |-> c]
Translate(t, c) == [kind |-> "Translate", translation |-> t, content |-> c]
Opaque == [kind |-> "Custom"]

RECURSIVE hit_test(_, _)
RECURSIVE hit_test_ClipUnbounded(_, _)
hit_test_ClipUnbounded(primitive, cursor_position) ==
    CASE primitive.kind \in {"Quad", "Text", "Image", "Svg"} ->
            contains(primitive.bounds, cursor_position)
      [] primitive.kind = "Group" ->
            \E i \in 1..Len(primitive.primitives) :
                hit_test_ClipUnbounded(primitive.primitives[i], cursor_position)
      [] primitive.kind = "Clip" ->
            hit_test_ClipUnbounded(primitive.content, cursor_position)
      [] primitive.kind = "Translate" ->
            hit_test_ClipUnbounded(primitive.content,
                     <<cursor_position[1] + primitive.translation[1],
                       cursor_position[2] + primitive.translation[2]>>)
      [] OTHER -> FALSE

hit_test(primitive, cursor_position) ==
    CASE primitive.kind \in {"Quad", "Text", "Image", "Svg"} ->
            contains(primitive.bounds, cursor_position)
      [] primitive.kind = "Group" ->
            \E i \in 1..Len(primitive.primitives) :
                hit_test(primitive.primitives[i], cursor_position)
      [] primitive.kind = "Clip" ->
            /\ contains(primitive.bounds, cursor_position)
            /\ hit_test(primitive.content, cursor_position)
      [] primitive.kind = "Translate" ->
            hit_test(primitive.content,
                     <<cursor_position[1] + primitive.translation[1],
                       cursor_position[2] + primitive.translation[2]>>)
      [] OTHER -> FALSE

\* ------------------------------------------------------------------------
\* lib.rs: pointer position
\* ------------------------------------------------------------------------
ORIGIN == <<0, 0>>

TouchKinds == {"FingerLifted", "FingerLost", "FingerMoved", "FingerPressed"}

process_touch_input_ReleasedFirst(touches, queue, touch_enabled) ==
    IF ~touch_enabled THEN None
    ELSE IF touches.just_released # <<>> THEN Some(Head(touches.just_released))
    ELSE IF touches.pressed # <<>> THEN Some(Head(touches.pressed))
    ELSE LET found == SelectSeq(queue, LAMBDA ev :
                                   ev.cat = "Touch" /\ ev.kind \in TouchKinds)
         IN  IF found # <<>> THEN Some(Head(found).position) ELSE None

\* process_touch_input; touches.pressed and touches.just_released are given in
\* the iteration order of the host's maps
process_touch_input(touches, queue, touch_enabled) ==
    IF ~touch_enabled THEN None
    ELSE IF touches.pressed # <<>> THEN Some(Head(touches.pressed))
    ELSE IF touches.just_released # <<>> THEN Some(Head(touches.just_released))
    ELSE LET found == SelectSeq(queue, LAMBDA ev :
                                   ev.cat = "Touch" /\ ev.kind \in TouchKinds)
         IN  IF found # <<>> THEN Some(Head(found).position) ELSE None

resolve_cursor_NoFlip(window, bounds, touches, queue, touch_enabled) ==
    IF is_some(window.cursor)
    THEN LET p == unwrap(window.cursor)
         IN  <<(p[1] * bounds.width) \div window.width,
               (p[2] * bounds.height) \div window.height>>
    ELSE LET t == process_touch_input(touches, queue, touch_enabled)
         IN  IF is_some(t) THEN unwrap(t) ELSE ORIGIN

\* The cursor_position block of display: the window's cursor position scaled
\* to the viewport with the vertical axis flipped, else a touch, else origin
resolve_cursor(window, bounds, touches, queue, touch_enabled) ==
    IF is_some(window.cursor)
    THEN LET p == unwrap(window.cursor)
         IN  <<(p[1] * bounds.width) \div window.width,
               ((window.height - p[2]) * bounds.height) \div window.height>>
    ELSE LET t == process_touch_input(touches, queue, touch_enabled)
         IN  IF is_some(t) THEN unwrap(t) ELSE ORIGIN

\* ------------------------------------------------------------------------
\* lib.rs: IcedContext::display
\* ------------------------------------------------------------------------
cursor_icon_of(interaction) ==
    CASE interaction = "Idle" -> "Default"
      [] interaction = "Pointer" -> "Hand"
      [] interaction = "Grab" -> "Grab"
      [] interaction = "Text" -> "Text"
      [] interaction = "Crosshair" -> "Crosshair"
      [] interaction = "Working" -> "Progress"
      [] interaction = "Grabbing" -> "Grabbing"
      [] interaction = "ResizingHorizontally" -> "ColResize"
      [] interaction = "ResizingVertically" -> "RowResize"
      [] interaction = "NotAllowed" -> "NotAllowed"

captured_Ignored(queue, statuses) ==
    LET n == IF Len(queue) < Len(statuses) THEN Len(queue) ELSE Len(statuses)
        keep(i) == statuses[i] = "Ignored"
        F[i \in 0..n] ==
            IF i = 0 THEN <<>>
            ELSE IF keep(i) THEN Append(F[i - 1], queue[i]) ELSE F[i - 1]
    IN  F[n]

\* events.iter().zip(event_statuses).filter_map(..).collect()
captured(queue, statuses) ==
    LET n == IF Len(queue) < Len(statuses) THEN Len(queue) ELSE Len(statuses)
        keep(i) == statuses[i] = "Captured"
        F[i \in 0..n] ==
            IF i = 0 THEN <<>>
            ELSE IF keep(i) THEN Append(F[i - 1], queue[i]) ELSE F[i - 1]
    IN  F[n]

events_clear_Skipped(queue) == queue

\* self.events.clear()
events_clear(queue) == <<>>

\* The inputs of a display call that the host and the toolkit decide: the
\* messages of the update pass, the element's draw output, the primary
\* window, the viewport and the touches.
Scenes ==
    {[interaction |-> "Idle",
      messages |-> <<>>,
      primitives |-> <<Text(Rect(0, 0, 10, 10))>>,
      window |-> [cursor |-> Some(<<100, 100>>), width |-> 800, height |-> 600],
      bounds |-> [width |-> 400, height |-> 300],
      touches |-> [pressed |-> <<>>, just_released |-> <<>>]],
     [interaction |-> "Pointer",
      messages |-> <<"Clicked">>,
      primitives |-> <<Opaque, Group(<<Quad(Rect(40, 240, 20, 20))>>)>>,
      window |-> [cursor |-> None, width |-> 800, height |-> 600],
      bounds |-> [width |-> 400, height |-> 300],
      touches |-> [pressed |-> <<<<50, 250>>>>, just_released |-> <<>>]]}

\* What the update pass may report for a queue of n events
Statuses(n) == [1..n -> {"Captured", "Ignored"}]

\* Where a display call can fail: the primary window query, and the toolkit's
\* build, update and draw, which run the caller's widgets.
Outcomes == {"ok", "panic_window", "panic_build", "panic_update", "panic_draw"}

exit_path_Lenient(lock_poisoned, cache_entry, chosen) == chosen

\* How far a display call gets: lock().unwrap() on the shared properties,
\* windows.single(), cache_entry.take().unwrap(), then the toolkit's passes.
exit_path(lock_poisoned, cache_entry, chosen) ==
    IF lock_poisoned THEN "panic_lock"
    ELSE IF chosen = "panic_window" THEN chosen
    ELSE IF ~is_some(cache_entry) THEN "panic_unwrap"
    ELSE chosen

wants_pointer_input_LastOnly(primitives, cursor_position) ==
    LET F[i \in 0..Len(primitives)] ==
            IF i = 0 THEN FALSE
            ELSE hit_test(primitives[i], cursor_position)
    IN  F[Len(primitives)]

\* The for_each over the frame's primitives; the flag starts false and is
\* set by the first primitive that is hit.
wants_pointer_input(primitives, cursor_position) ==
    LET F[i \in 0..Len(primitives)] ==
            IF i = 0 THEN FALSE
            ELSE IF ~F[i - 1] /\ hit_test(primitives[i], cursor_position)
                 THEN TRUE
                 ELSE F[i - 1]
    IN  F[Len(primitives)]

display_result_Accumulated(previous, queue, statuses, primitives, cursor_position) ==
    [captured_events |-> previous.captured_events \o captured(queue, statuses),
     wants_pointer_input |->
        previous.wants_pointer_input \/ wants_pointer_input(primitives, cursor_position)]

\* The two assignments to self.result of a call that returns
display_result(previous, queue, statuses, primitives, cursor_position) ==
    [captured_events |-> captured(queue, statuses),
     wants_pointer_input |-> wants_pointer_input(primitives, cursor_position)]

display(id, scene, statuses, snapshot, chosen) ==
    LET map1 == get(cache_map, id)
        cache_entry == map1[id]
        outcome == exit_path(poisoned, cache_entry, chosen)
        reached == outcome \notin {"panic_lock", "panic_window"}
        taken == outcome \in {"ok", "panic_build", "panic_update", "panic_draw"}
        cursor_position ==
            resolve_cursor(scene.window, scene.bounds, scene.touches, events, touch)
    IN  /\ poisoned' = (outcome # "ok")
        /\ cache_map' =
              IF ~reached THEN cache_map
              ELSE IF outcome = "ok" THEN [map1 EXCEPT ![id] = Some(snapshot)]
              ELSE [map1 EXCEPT ![id] = None]
        /\ IF outcome = "ok"
           THEN /\ cursor_icon' = cursor_icon_of(scene.interaction)
                /\ result' = display_result(result, events, statuses,
                                            scene.primitives, cursor_position)
                /\ events' = events_clear(events)
                /\ did_draw' = TRUE
                /\ drained' = TRUE
           ELSE UNCHANGED <<cursor_icon, result, events, did_draw, drained>>
        /\ checkin' =
              IF outcome = "ok" THEN [checkin EXCEPT ![id] = Some(snapshot)]
              ELSE IF taken THEN [checkin EXCEPT ![id] = None]
              ELSE checkin
        /\ last' = [id |-> id, outcome |-> outcome, translated |-> translated,
                    drained |-> drained, persisted |-> checkin[id],
                    cache |-> IF taken THEN cache_entry ELSE None,
                    events |-> events,
                    statuses |-> IF outcome \in {"ok", "panic_draw"}
                                 THEN statuses ELSE <<>>,
                    scene |-> IF reached THEN Some(scene) ELSE None,
                    cursor |-> IF reached THEN Some(cursor_position) ELSE None,
                    sent |-> IF outcome \in {"ok", "panic_draw"}
                             THEN scene.messages ELSE <<>>]
        /\ UNCHANGED <<input_map, touch, translated, observed, input_before>>

\* ------------------------------------------------------------------------
\* Specifications
\* ------------------------------------------------------------------------
InitCommon ==
    /\ events = <<>>
    /\ input_map = {}
    /\ cache_map = <<>>
    /\ poisoned = FALSE
    /\ result = [captured_events |-> <<>>, wants_pointer_input |-> FALSE]
    /\ cursor_icon = "Default"
    /\ did_draw = FALSE
    /\ translated = FALSE
    /\ observed = <<>>
    /\ input_before = {}
    /\ drained = FALSE
    /\ checkin = [id \in Ids |-> None]
    /\ last = NoCall

\* The frame machine: per frame, process_input once and any display calls,
\* in any order.
Init == InitCommon /\ touch = TRUE

Translation == \E host \in SeqsUpTo(FrameAlphabet, MaxHostEvents) : process_input(host)

Display ==
    \E id \in Ids, chosen \in Outcomes :
        IF chosen = "ok"
        THEN \E scene \in Scenes, snapshot \in Snapshots,
                statuses \in Statuses(Len(events)) :
                display(id, scene, statuses, snapshot, chosen)
        ELSE \E statuses \in Statuses(Len(events)) :
                display(id, CHOOSE scene \in Scenes : TRUE, statuses, Default, chosen)

Next == Translation \/ Display \/ EndFrame

Spec == Init /\ [][Next]_vars

\* One program whose display system runs to completion, with every status
\* report of the update pass.
PassTranslation ==
    \E host \in SeqsUpTo(PassAlphabet, MaxPassEvents) : process_input(host)

Pass ==
    \E scene \in Scenes, statuses \in Statuses(Len(events)) :
        display("A", scene, statuses, Default, "ok")

NextPass == PassTranslation \/ Pass \/ EndFrame

SpecPass == Init /\ [][NextPass]_vars

\* One program whose display system runs once in every frame, before or
\* after process_input as the scheduler has it in that frame.
OncePass == last.id = "none" /\ Pass

OnceEndFrame == last.id # "none" /\ EndFrame

NextOnce == PassTranslation \/ OncePass \/ OnceEndFrame

SpecOnce == Init /\ [][NextOnce]_vars

\* The translator alone, on host events of every category, with and without
\* the touch feature.
InitInput == InitCommon /\ touch \in BOOLEAN

TickTranslation ==
    \E host \in SeqsUpTo(TickAlphabet, MaxTickEvents) : process_input(host)

NextInput == TickTranslation \/ EndFrame

SpecInput == InitInput /\ [][NextInput]_vars

\* The hit tester on the primitives of a frame: one program, the pointer
\* given by a pressed touch (a touch position is used as it is).
HitPoints == {<<5, 5>>, <<55, 55>>, <<105, 105>>}

HitPrimitives ==
    {<<>>,
     <<Opaque>>,
     <<Translate(<<50, 50>>, Quad(Rect(0, 0, 10, 10)))>>,
     <<Translate(<<-50, -50>>, Image(Rect(100, 100, 10, 10)))>>,
     <<Clip(Rect(0, 0, 10, 10), Quad(Rect(0, 0, 100, 100)))>>,
     <<Clip(Rect(0, 0, 100, 100), Svg(Rect(50, 50, 10, 10)))>>,
     <<Clip(Rect(0, 0, 10, 10), Opaque)>>,
     <<Clip(Rect(50, 50, 10, 10), Group(<<Text(Rect(0, 0, 10, 10)), Quad(Rect(0, 0, 100, 100))>>))>>,
     <<Quad(Rect(0, 0, 10, 10)), Text(Rect(100, 100, 10, 10))>>,
     <<Text(Rect(100, 100, 10, 10)), Opaque, Quad(Rect(50, 50, 10, 10))>>,
     <<Group(<<Quad(Rect(0, 0, 10, 10)), Text(Rect(50, 50, 10, 10))>>)>>,
     <<Group(<<Text(Rect(50, 50, 10, 10)), Quad(Rect(0, 0, 10, 10))>>)>>,
     <<Group(<<>>), Group(<<Opaque, Group(<<Image(Rect(100, 100, 10, 10))>>)>>)>>}

HitScenes ==
    {[interaction |-> "Idle",
      messages |-> <<>>,
      primitives |-> ps,
      window |-> [cursor |-> None, width |-> 800, height |-> 600],
      bounds |-> [width |-> 400, height |-> 300],
      touches |-> [pressed |-> <<p>>, just_released |-> <<>>]] :
        ps \in HitPrimitives, p \in HitPoints}

HitPass ==
    \E scene \in HitScenes :
        display("A", scene, [i \in 1..Len(events) |-> "Ignored"], Default, "ok")

NextHit == Translation \/ HitPass \/ EndFrame

SpecHit == Init /\ [][NextHit]_vars

\* The pointer position of a display call, from every combination of its
\* sources: the primary window's cursor, pressed and just released touches,
\* the touch events of the queue; with and without the touch feature.
PointerWindows ==
    {[cursor |-> c, width |-> w[1], height |-> w[2]] :
        c \in {None, Some(<<800, 0>>), Some(<<100, 100>>)},
        w \in {<<800, 600>>, <<1600, 1200>>}}

PointerTouches ==
    {[pressed |-> pr, just_released |-> jr] :
        pr \in {<<>>, <<<<55, 55>>, <<20, 30>>>>},
        jr \in {<<>>, <<<<30, 70>>>>}}

PointerScenes ==
    {[interaction |-> "Idle",
      messages |-> <<>>,
      primitives |-> <<Quad(Rect(40, 240, 20, 20))>>,
      window |-> w,
      bounds |-> [width |-> 400, height |-> 300],
      touches |-> t] :
        w \in PointerWindows, t \in PointerTouches}

PointerTranslation ==
    \E host \in SeqsUpTo(PointerAlphabet, MaxPointerEvents) : process_input(host)

PointerPass ==
    \E scene \in PointerScenes :
        display("A", scene, [i \in 1..Len(events) |-> "Ignored"], Default, "ok")

NextPointer == PointerTranslation \/ PointerPass \/ EndFrame

SpecPointer == InitInput /\ [][NextPointer]_vars

\* ------------------------------------------------------------------------
\* Properties
\* ------------------------------------------------------------------------
Called == last.id # "none"

\* the call got as far as the checkout of its cache entry
ReachedCheckout == Called /\ last.outcome \notin {"panic_lock", "panic_window"}

\* C1: once a display call has ended, on whatever exit path, the entry of
\* every program identity is present (checked in); no sequence of display
\* calls leaves an entry absent.
C1_EntryRestored ==
    \A id \in DOMAIN cache_map : is_some(cache_map[id])

\* What one host event becomes, taken alone, under the key state the
\* translator reads.
TranslatedAlone(ev, pressed, touch_enabled) ==
    CASE ev.type = "CursorMoved" -> <<cursor_moved(ev)>>
      [] ev.type = "MouseButtonInput" -> <<mouse_button_input(ev)>>
      [] ev.type = "CursorEntered" -> <<cursor_entered(ev)>>
      [] ev.type = "CursorLeft" -> <<cursor_left(ev)>>
      [] ev.type = "MouseWheel" -> <<mouse_wheel(ev)>>
      [] ev.type = "ReceivedCharacter" -> <<received_character(ev)>>
      [] ev.type = "KeyboardInput" ->
            IF is_some(ev.key_code) THEN <<keyboard_input(ev, pressed)>> ELSE <<>>
      [] ev.type = "TouchInput" -> IF touch_enabled THEN <<touch_event(ev)>> ELSE <<>>

InObservationOrder(host, pressed, touch_enabled) ==
    Concat([i \in 1..Len(host) |-> TranslatedAlone(host[i], pressed, touch_enabled)])

\* C2: the queue process_input produces holds the translations of the tick's
\* host events in the order the host observed them, across categories.
C2_ObservationOrder ==
    events = InObservationOrder(observed, input_map, touch)

\* C3: every display call of a frame runs after that frame's process_input.
C3_TranslationFirst ==
    Called => last.translated

\* the queue process_input built from the host events it read last
FullQueue == InObservationOrder(observed, input_map, touch)

\* C4: a display call that returns leaves the event queue empty; so the first
\* call after a translation is handed the full queue (the host events of the
\* frame machine are of one category) and every later call before the next
\* translation is handed an empty queue.
C4_QueueDrained ==
    /\ drained => events = <<>>
    /\ (Called /\ last.drained) => last.events = <<>>
    /\ (Called /\ last.translated /\ ~last.drained) => last.events = FullQueue

C4_Witness ==
    /\ last.id = "B" /\ last.outcome = "ok"
    /\ last.translated /\ last.drained
    /\ last.events = <<>> /\ events = <<>>
    /\ Len(observed) = MaxHostEvents
    /\ "A" \in DOMAIN cache_map

\* positions of the queue whose status in the update pass was Captured
CapturedAt(statuses) == {i \in DOMAIN statuses : statuses[i] = "Captured"}

\* C5: after a display call the captured list is exactly the events of the
\* queue the call started with whose status was Captured, in queue order:
\* the k-th captured event is the event at the k-th captured position.
C5_CapturedSubsequence ==
    (Called /\ last.outcome = "ok") =>
        LET at == CapturedAt(last.statuses)
            got == result.captured_events
        IN  /\ Len(last.statuses) = Len(last.events)
            /\ Len(got) = Cardinality(at)
            /\ \A i \in at : got[Cardinality({j \in at : j <= i})] = last.events[i]

C5_Witness ==
    /\ last.outcome = "ok"
    /\ Len(last.events) = 3
    /\ last.statuses = <<"Captured", "Ignored", "Captured">>
    /\ last.events[1] # last.events[2] /\ last.events[2] # last.events[3]
    /\ result.captured_events = <<last.events[1], last.events[3]>>
    /\ events = <<>>

Count(e, s) == Cardinality({i \in DOMAIN s : s[i] = e})

\* C6: process_input replaces the queue: afterwards it holds one translation
\* for each host event of this invocation that has one and nothing else,
\* and an invocation without host events leaves it empty.
C6_QueueReplaced ==
    LET expected == InObservationOrder(observed, input_map, touch)
    IN  /\ Len(events) = Len(expected)
        /\ \A i \in DOMAIN events : Count(events[i], events) = Count(events[i], expected)
        /\ observed = <<>> => events = <<>>

C6_Witness ==
    /\ translated
    /\ observed = <<>> /\ events = <<>>
    /\ input_map = {"LControl", "A"}

\* C7: the display call for an identity that follows a checkin of that
\* identity checks out exactly the snapshot of that checkin.
C7_CheckoutReturnsCheckin ==
    (ReachedCheckout /\ is_some(last.persisted)) => last.cache = last.persisted

C7_Witness ==
    /\ last.id = "A" /\ last.outcome = "ok"
    /\ last.persisted = Some(MaxSnapshot) /\ last.cache = Some(MaxSnapshot)
    /\ "B" \in DOMAIN cache_map /\ cache_map["B"] # Some(MaxSnapshot)

DisplayStep(id) == last' # last /\ last'.id = id

\* the state of an identity's entry: whether the map has it, and its value
Entry(map, id) == IF contains_key(map, id) THEN <<map[id]>> ELSE <<>>

\* C8: a display call for one identity leaves the entry of every other
\* identity as it was: present or absent, and with the same snapshot.
C8_OtherEntryUntouched ==
    [][\A id \in Ids : DisplayStep(id) =>
          \A other \in Ids \ {id} : Entry(cache_map', other) = Entry(cache_map, other)]_vars

C8_Witness ==
    /\ last.id = "A" /\ last.outcome = "ok"
    /\ cache_map["A"] = Some(Default)
    /\ "B" \in DOMAIN cache_map /\ cache_map["B"] = Some(MaxSnapshot)

\* the key state just before the i-th host event of the latest tick
KeysBefore(i) == ApplyKeys(input_before, SubSeq(observed, 1, i - 1))

HasKeyCode(ev) == ev.type = "KeyboardInput" /\ is_some(ev.key_code)

\* host events translated by the loops that precede the keyboard loop
BeforeKeyboard(ev) ==
    ev.type \in {"CursorMoved", "MouseButtonInput", "CursorEntered", "CursorLeft",
                 "MouseWheel", "ReceivedCharacter"}

\* the place in the queue of the translation of the i-th host event, a
\* keyboard event with a key code
KeyboardSlot(i) ==
    Cardinality({j \in DOMAIN observed : BeforeKeyboard(observed[j])})
    + Cardinality({j \in 1..i : HasKeyCode(observed[j])})

\* no modifier key other than left-ctrl is held at any moment of the tick
OnlyLeftCtrl ==
    \A j \in 1..(Len(observed) + 1) :
        KeysBefore(j) \cap ModifierKeys \subseteq {"LControl"}

\* C9: with no other modifier key held, a press of left-ctrl yields a
\* modifiers-changed event with exactly the CTRL bit, and its release one
\* without any bit, also when both happen in one tick.
C9_LeftCtrl ==
    \A i \in DOMAIN observed :
        (/\ HasKeyCode(observed[i])
         /\ unwrap(observed[i].key_code) = "LControl"
         /\ OnlyLeftCtrl) =>
            LET ev == events[KeyboardSlot(i)]
            IN  /\ ev.kind = "ModifiersChanged"
                /\ ev.modifiers = IF observed[i].state = "Pressed" THEN {"CTRL"} ELSE {}

\* the modifier bit a modifier key stands for
BitOf(key) ==
    CASE key \in {"LControl", "RControl"} -> "CTRL"
      [] key \in {"LShift", "RShift"} -> "SHIFT"
      [] key \in {"LAlt", "RAlt"} -> "ALT"
      [] key \in {"LWin", "RWin"} -> "LOGO"

\* the combined state of the modifier keys held when process_input runs
HeldModifiers == {BitOf(key) : key \in input_map \cap ModifierKeys}

\* C10: each transition of a modifier key yields one modifiers-changed event
\* with the combined state of the modifier keys held when process_input
\* runs, and each transition of another key that has a key code yields one
\* key-pressed or key-released event, as the transition is, with that state;
\* the queue holds no other key event.
C10_KeyTransitions ==
    /\ \A i \in DOMAIN observed :
          HasKeyCode(observed[i]) =>
              LET ev == events[KeyboardSlot(i)]
                  code == unwrap(observed[i].key_code)
              IN  /\ ev.cat = "Keyboard"
                  /\ ev.modifiers = HeldModifiers
                  /\ IF code \in ModifierKeys
                     THEN ev.kind = "ModifiersChanged"
                     ELSE /\ ev.kind = IF observed[i].state = "Pressed"
                                       THEN "KeyPressed" ELSE "KeyReleased"
                          /\ ev.key_code = key_code(code)
    /\ Cardinality({k \in DOMAIN events :
                        events[k].kind \in {"ModifiersChanged", "KeyPressed", "KeyReleased"}})
       = Cardinality({i \in DOMAIN observed : HasKeyCode(observed[i])})

C10_Witness ==
    /\ translated
    /\ observed = <<KeyboardInputEv(Some("A"), "Pressed"),
                    KeyboardInputEv(Some("RShift"), "Pressed")>>
    /\ input_before = {"LControl"}
    /\ events = <<[cat |-> "Keyboard", kind |-> "KeyPressed",
                   key_code |-> key_code("A"), modifiers |-> {"CTRL", "SHIFT"}],
                  [cat |-> "Keyboard", kind |-> "ModifiersChanged",
                   modifiers |-> {"CTRL", "SHIFT"}]>>

\* ------------------------------------------------------------------------
\* C11: a translate node tests its content against the point shifted by the
\* negative of the translation: content with bounds (0,0)-(10,10) under a
\* translation of (50,50) is hit at (55,55) and not at (5,5).
\* ------------------------------------------------------------------------
Returned == last.outcome = "ok"

Shapes == {"Quad", "Text", "Image", "Svg"}

Sole(kind) ==
    /\ Returned
    /\ Len(unwrap(last.scene).primitives) = 1
    /\ unwrap(last.scene).primitives[1].kind = kind

C11_TranslateNegative ==
    (Sole("Translate") /\ unwrap(last.scene).primitives[1].content.kind \in Shapes) =>
        LET node == unwrap(last.scene).primitives[1]
            point == unwrap(last.cursor)
        IN  result.wants_pointer_input =
                contains(node.content.bounds,
                         <<point[1] - node.translation[1],
                           point[2] - node.translation[2]>>)

\* ------------------------------------------------------------------------
\* C12: with no primary pointer position, touch enabled, no pressed and no
\* just released touch, the pointer position of a display call is that of
\* the last touch event (lifted, lost, moved, pressed) of the queue.
\* ------------------------------------------------------------------------
TouchPositions(queue) ==
    LET found == SelectSeq(queue, LAMBDA ev : ev.cat = "Touch" /\ ev.kind \in TouchKinds)
    IN  [i \in 1..Len(found) |-> found[i].position]

OnlyQueuedTouch ==
    /\ Returned
    /\ touch
    /\ ~is_some(unwrap(last.scene).window.cursor)
    /\ unwrap(last.scene).touches.pressed = <<>>
    /\ unwrap(last.scene).touches.just_released = <<>>
    /\ TouchPositions(last.events) # <<>>

C12_LatestTouchEvent ==
    OnlyQueuedTouch =>
        unwrap(last.cursor) =
            TouchPositions(last.events)[Len(TouchPositions(last.events))]

\* ------------------------------------------------------------------------
\* C13: the pointer position of a display call is the mapped primary pointer
\* position if there is one; else, with touch enabled, the first pressed
\* touch, else a just released touch, else the position of a touch event of
\* the queue; else the origin.  With touch disabled it is the mapped primary
\* position or the origin.
\* ------------------------------------------------------------------------
Range(seq) == {seq[i] : i \in 1..Len(seq)}

Mapped(window, bounds) ==
    <<(unwrap(window.cursor)[1] * bounds.width) \div window.width,
      ((window.height - unwrap(window.cursor)[2]) * bounds.height) \div window.height>>

Preferred(scene, queue) ==
    IF is_some(scene.window.cursor) THEN {Mapped(scene.window, scene.bounds)}
    ELSE IF touch /\ scene.touches.pressed # <<>> THEN {scene.touches.pressed[1]}
    ELSE IF touch /\ scene.touches.just_released # <<>> THEN Range(scene.touches.just_released)
    ELSE IF touch /\ TouchPositions(queue) # <<>> THEN Range(TouchPositions(queue))
    ELSE {ORIGIN}

C13_PointerPrecedence ==
    Returned => unwrap(last.cursor) \in Preferred(unwrap(last.scene), last.events)

\* a call with touch enabled, no primary position, and all three touch sources
C13_Witness ==
    /\ Returned
    /\ touch
    /\ ~is_some(unwrap(last.scene).window.cursor)
    /\ unwrap(last.scene).touches.pressed # <<>>
    /\ unwrap(last.scene).touches.just_released # <<>>
    /\ TouchPositions(last.events) # <<>>
    /\ unwrap(last.cursor) = <<55, 55>>

\* ------------------------------------------------------------------------
\* C14: a primary pointer position (px, py) on a surface of size (sw, sh) with
\* a viewport of logical size (lw, lh) is mapped to (px*lw/sw, (sh-py)*lh/sh):
\* on 800x600 with a 400x300 viewport (800,0) maps to (400,300) and (100,100)
\* to (50,250).  The mapped position is the one given to the update pass, the
\* draw pass and the hit test.
\* ------------------------------------------------------------------------
PrimaryAt(p, w, h) ==
    /\ Returned
    /\ unwrap(last.scene).window = [cursor |-> Some(p), width |-> w, height |-> h]
    /\ unwrap(last.scene).bounds = [width |-> 400, height |-> 300]

C14_PointerMapping ==
    /\ (Returned /\ is_some(unwrap(last.scene).window.cursor)) =>
          LET window == unwrap(last.scene).window
              bounds == unwrap(last.scene).bounds
              px == unwrap(window.cursor)[1]
              py == unwrap(window.cursor)[2]
              at == unwrap(last.cursor)
          IN  /\ at[1] * window.width = px * bounds.width
              /\ at[2] * window.height = (window.height - py) * bounds.height
              /\ result.wants_pointer_input =
                    \E i \in 1..Len(unwrap(last.scene).primitives) :
                        contains(unwrap(last.scene).primitives[i].bounds,
                                 <<(px * bounds.width) \div window.width,
                                   ((window.height - py) * bounds.height) \div window.height>>)
    /\ PrimaryAt(<<800, 0>>, 800, 600) => unwrap(last.cursor) = <<400, 300>>
    /\ PrimaryAt(<<100, 100>>, 800, 600) => unwrap(last.cursor) = <<50, 250>>

C14_Witness ==
    /\ PrimaryAt(<<100, 100>>, 800, 600)
    /\ unwrap(last.cursor) = <<50, 250>>
    /\ result.wants_pointer_input

\* ------------------------------------------------------------------------
\* C15: a point outside a clip node's bounds is not contained, whatever the
\* content; a clip node contains a point only if its bounds and its content
\* both contain it.
\* ------------------------------------------------------------------------
\* what the hit tester is to report for a primitive: a shape by its bounds,
\* a group by any child, an opaque kind never; clip and translate nodes by
\* the function itself
RECURSIVE Reported(_, _)
Reported(primitive, point) ==
    CASE primitive.kind \in Shapes -> contains(primitive.bounds, point)
      [] primitive.kind = "Group" ->
            \E i \in 1..Len(primitive.primitives) : Reported(primitive.primitives[i], point)
      [] primitive.kind = "Custom" -> FALSE
      [] OTHER -> hit_test(primitive, point)

C15_ClipBounds ==
    Sole("Clip") =>
        LET node == unwrap(last.scene).primitives[1]
            point == unwrap(last.cursor)
        IN  /\ ~contains(node.bounds, point) => ~result.wants_pointer_input
            /\ result.wants_pointer_input =
                  (contains(node.bounds, point) /\ Reported(node.content, point))

\* the point is in the content and outside the clip bounds
C15_Witness ==
    /\ Sole("Clip")
    /\ ~contains(unwrap(last.scene).primitives[1].bounds, unwrap(last.cursor))
    /\ Reported(unwrap(last.scene).primitives[1].content, unwrap(last.cursor))
    /\ ~result.wants_pointer_input

\* ------------------------------------------------------------------------
\* C16: after a display call wants_pointer_input is true exactly if the hit
\* tester reports containment for at least one primitive of the frame's
\* list; a group is hit exactly if any child is, in any order, and an opaque
\* kind is never hit.
\* ------------------------------------------------------------------------
C16_PointerOccupancy ==
    Returned =>
        result.wants_pointer_input =
            \E i \in 1..Len(unwrap(last.scene).primitives) :
                Reported(unwrap(last.scene).primitives[i], unwrap(last.cursor))

\* the first primitive of the list is hit and a later one is not
C16_Witness ==
    /\ Returned
    /\ Len(unwrap(last.scene).primitives) > 1
    /\ Reported(unwrap(last.scene).primitives[1], unwrap(last.cursor))
    /\ ~Reported(unwrap(last.scene).primitives[Len(unwrap(last.scene).primitives)],
                 unwrap(last.cursor))
    /\ result.wants_pointer_input

\* ------------------------------------------------------------------------
\* C17: a display call for an identity whose cache entry is checked out
\* (absent) fails fast: it aborts before the build, update and draw passes,
\* sends no message, and leaves the event queue, the display result and
\* every cache entry as they were.
\* ------------------------------------------------------------------------
CheckedOut(id) == contains_key(cache_map, id) /\ ~is_some(cache_map[id])

C17_CheckedOutFailsFast ==
    [][\A id \in Ids :
          (DisplayStep(id) /\ CheckedOut(id)) =>
              /\ last'.outcome \in {"panic_lock", "panic_window", "panic_unwrap"}
              /\ last'.sent = <<>>
              /\ events' = events
              /\ result' = result
              /\ cache_map' = cache_map]_vars

\* such a call has been made, over a queue that holds events
C17_Witness ==
    /\ last.outcome = "panic_lock"
    /\ CheckedOut(last.id)
    /\ last.events # <<>>
    /\ events = last.events

\* ------------------------------------------------------------------------
\* C18: the first display call for an identity never seen before is not an
\* error: the checkout creates a default cache for it and the pass runs on
\* that cache; when the call returns, the map holds one present entry for
\* the identity, next to the entries it held.  Nothing registers the
\* identity at startup.
\* ------------------------------------------------------------------------
C18_FirstUseCreates ==
    [][\A id \in Ids :
          (DisplayStep(id) /\ ~contains_key(cache_map, id)
             /\ last'.outcome \notin {"panic_lock", "panic_window"}) =>
              /\ last'.outcome # "panic_unwrap"
              /\ last'.cache = Some(Default)
              /\ DOMAIN cache_map' = DOMAIN cache_map \cup {id}
              /\ \A other \in DOMAIN cache_map : cache_map'[other] = cache_map[other]
              /\ last'.outcome = "ok" => is_some(cache_map'[id])]_vars

\* the first call of a run, for an unseen identity, has returned
C18_Witness ==
    /\ Returned
    /\ last.persisted = None
    /\ last.cache = Some(Default)
    /\ DOMAIN cache_map = {last.id}
    /\ is_some(cache_map[last.id])

\* ------------------------------------------------------------------------
\* C19: with one program that calls display once per frame, no translated
\* event is lost: every event process_input puts in the queue is given to
\* the update pass of one display call before the queue is cleared, in
\* whatever order the two run in each frame.  A display call that returns
\* leaves the queue empty, so the queue process_input clears must be empty.
\* ------------------------------------------------------------------------
TranslationStep == ~translated /\ translated'

C19_NoEventLost ==
    [][TranslationStep => events = <<>>]_vars

\* ------------------------------------------------------------------------
\* C20: the display result is that of the latest display call alone: a call
\* that returns overwrites both captured_events and wants_pointer_input, so
\* after A and then B in one frame the captured list is B's (empty, B having
\* been given an empty queue) and what A captured is gone; a translation
\* leaves the result as it was.
\* ------------------------------------------------------------------------
C20_LatestCallOnly ==
    [][/\ Returned' =>
             /\ Len(result'.captured_events) = Cardinality(CapturedAt(last'.statuses))
             /\ Range(result'.captured_events) \subseteq Range(last'.events)
             /\ last'.events = <<>> => result'.captured_events = <<>>
             /\ result'.wants_pointer_input =
                   \E i \in 1..Len(unwrap(last'.scene).primitives) :
                       Reported(unwrap(last'.scene).primitives[i], unwrap(last'.cursor))
       /\ TranslationStep => result' = result]_vars

\* B has returned after A in a frame whose queue went to A
C20_Witness ==
    /\ Returned
    /\ last.id = "B"
    /\ last.translated /\ last.drained
    /\ observed # <<>>
    /\ contains_key(cache_map, "A") /\ is_some(cache_map["A"])
    /\ result = [captured_events |-> <<>>, wants_pointer_input |-> TRUE]

====
